---- MODULE Spec2Model ----
(***************************************************************************)
(* A model of dry_torch's training orchestration: the Trainer (training.py)*)
(* with its epoch generator LogMetrics.log_train, the pre/post epoch hook  *)
(* lists, the HookRegistry (hooks.py) and the model binding discipline.    *)
(***************************************************************************)
EXTENDS Integers, Sequences, FiniteSets, TLC

\* ------------------------------------------------------------------ bounds
\* Largest number of hooks registered in one behaviour (all lists together).
MaxHooks == 2
\* Cap on a model's epoch counter: train(n) is called only while the
\* counter can still take n more epochs.
MaxEpoch == 3

\* Deepest nesting of the structures handed to recursive_apply.
MaxDepth == 2
\* Largest number of sub-batches of metric values given to aggregates.
MaxParts == 3
\* Largest length of a DictList.
MaxLen == 3
\* Largest number of load_checkpoint() calls in one behaviour.
MaxLoads == 2
\* Largest patience of an early-stopping callback.
MaxPatience == 2
\* Largest number of epochs logged for an early-stopping callback.
MaxLog == 4
\* Largest value of the counter of default link names.
MaxLinks == 4

Trainers == {"t1", "t2"}
Models == {"m1", "m2"}
NoTrainer == "no_trainer"
NoModel == "no_model"

\* What a registered callable does when invoked with the orchestrator.
\* "validate" is the closure Trainer._activate_validation registers.
HookKinds == {"noop", "terminate", "raise"}
Criteria == {"finite", "nan", "inf"}
BackwardOutcomes == {"ok", "ValueError"}
\* The training loader: an iterable of batches, here two (4 samples in
\* batches of 2).
Loader == <<"b1", "b2">>

VARIABLES
    bound,              \* binding registry: model -> bound Trainer or NoTrainer
    model_of,           \* Trainer.model (NoModel: the object does not exist)
    early_termination,  \* Trainer.early_termination
    validation_test,    \* TRUE iff Trainer.validation_test is a Test
    pre_epoch_hooks,    \* Trainer._pre_epoch_hooks
    post_epoch_hooks,   \* Trainer._post_epoch_hooks
    epoch,              \* model_tracking.epoch, per model
    lr,                 \* epoch for which the learning rate was last scheduled
    params,             \* number of optimizer steps applied to the parameters
    mode,               \* module mode: "train" or "eval"
    pc,                 \* position of the running train() call, or "idle"
    call,               \* the running (or last) train() call and its snapshot
    gen_left,           \* log_train generator: iterations of range() left
    it,                 \* train(): index of the current loop iteration
    batch_idx,          \* _run_epoch: index of the next batch
    log,                \* history: events of the running (or last) API call
    result,             \* history: what the last API call did
    silent,             \* history: in this train() call the optimizer was
                        \* stepped on a batch with a non-finite criterion
    reg_hooks,          \* HookRegistry._hooks
    obj,                \* recursive_apply: the nested structure at hand
    applied,            \* recursive_apply: the last call's function and outcome
    pool,               \* the TorchAggregate objects at hand
    parts,              \* per metric, the sub-batches of values aggregated
    agg_last,           \* the last update of an aggregate and its outcome
    objective,          \* Evaluation.objective: the object each evaluation owns
    acc,                \* per objective object, the batches accumulated
    outputs_list,       \* Evaluation.outputs_list
    max_stored_output,  \* Evaluation.max_stored_output
    ev_call,            \* the running (or last) evaluation call
    ev_log,             \* history: events of the running (or last) evaluation
    dl_keys,            \* DictList._keys
    dl_list,            \* DictList._tuple_list
    dl_result,          \* history: the last DictList operation and its error
    ckpt,               \* checkpoint store, per model: epoch -> parameters
    last_save,          \* history: epoch and parameters of the latest save()
    loads,              \* history: number of load_checkpoint() calls so far
    es_patience,        \* early stopping: patience (-1: no callback yet)
    es_start,           \* early stopping: start_from_epoch
    es_best,            \* early stopping: best_result of the closure
    es_log,             \* the monitored metric's logged values, one per epoch
    es_terminated,      \* the early-stopping hook called terminate_training()
    exp_current,        \* the class attribute Experiment._current
    exp_shadowed,       \* the instances that have an attribute _current = None
    past_experiments,   \* Experiment.past_experiments
    exp_last,           \* history: the last Experiment call and its object
    hy_pc,              \* link_to_hydra: "idle" or in the loop
    hy_count,           \* Experiment.default_link_name.count_defaults
    hy_links,           \* names of the entries of the experiment directory
    hy_created          \* history: links created by the running call

trainer_vars == <<model_of, early_termination, validation_test,
                  pre_epoch_hooks, post_epoch_hooks>>
model_vars == <<epoch, lr, params, mode>>
call_vars == <<pc, call, gen_left, it, batch_idx>>
hist_vars == <<log, result, silent>>
train_vars == <<bound, trainer_vars, model_vars, call_vars, hist_vars,
                reg_hooks>>
apply_vars == <<obj, applied>>
agg_vars == <<pool, parts, agg_last>>
eval_vars == <<objective, acc, outputs_list, max_stored_output, ev_call,
               ev_log>>
\* What the actions of one component leave alone (an evaluation also sets
\* the mode of its model).
dl_vars == <<dl_keys, dl_list, dl_result>>
ckpt_vars == <<ckpt, last_save, loads>>
\* The components added to the ones above.
es_vars == <<es_patience, es_start, es_best, es_log, es_terminated>>
exp_vars == <<exp_current, exp_shadowed, past_experiments, exp_last>>
hy_vars == <<hy_pc, hy_count, hy_links, hy_created>>
more_vars == <<ckpt_vars, es_vars, exp_vars, hy_vars>>
not_apply_vars == <<train_vars, agg_vars, eval_vars, dl_vars, more_vars>>
not_agg_vars == <<train_vars, apply_vars, eval_vars, dl_vars, more_vars>>
not_eval_vars == <<bound, trainer_vars, epoch, lr, params, call_vars,
                   hist_vars, reg_hooks, apply_vars, agg_vars, dl_vars,
                   more_vars>>
not_dl_vars == <<train_vars, apply_vars, agg_vars, eval_vars, more_vars>>
\* (a checkpoint is saved and loaded through a Trainer)
not_ckpt_vars == <<apply_vars, agg_vars, eval_vars, dl_vars, es_vars,
                   exp_vars, hy_vars>>
not_es_vars == <<train_vars, apply_vars, agg_vars, eval_vars, dl_vars,
                 ckpt_vars, exp_vars, hy_vars>>
not_exp_vars == <<train_vars, apply_vars, agg_vars, eval_vars, dl_vars,
                  ckpt_vars, es_vars, hy_vars>>
not_hy_vars == <<train_vars, apply_vars, agg_vars, eval_vars, dl_vars,
                 ckpt_vars, es_vars, exp_vars>>
\* The state of the library components beside the Trainer.
lib_vars == <<apply_vars, agg_vars, eval_vars, dl_vars, more_vars>>
vars == <<train_vars, lib_vars>>

\* A log event: its kind, the train() loop iteration it belongs to, an index
\* (batch index, position in the hook list, epoch value), a label and, for
\* a hook invocation, the instance passed to the callable.
Ev(ev, k, i, h, arg) == [ev |-> ev, it |-> k, i |-> i, h |-> h, arg |-> arg]

\* ------------------------------------------------------- nested values
\* A Python value handed to recursive_apply: a leaf of some type, a
\* MutableMapping (keys in insertion order, with their items), a
\* MutableSequence, or a tuple of class cls. All values are records of one
\* shape, so that any two of them can be compared.
Leaf(ty, v) ==
    [kind |-> "leaf", cls |-> ty, keys |-> <<>>, items |-> <<>>, v |-> v]
Mapping(keys, items) ==
    [kind |-> "mapping", cls |-> "dict", keys |-> keys, items |-> items,
     v |-> ""]
MutableSequence(items) ==
    [kind |-> "sequence", cls |-> "list", keys |-> <<>>, items |-> items,
     v |-> ""]
Tuple(cls, items) ==
    [kind |-> "tuple", cls |-> cls, keys |-> <<>>, items |-> items, v |-> ""]

\* The outcome of a call: the exception raised ("none": it returned) and
\* the value returned.
NoValue == Leaf("none", "")
Returned(val) == [err |-> "none", val |-> val]
Raised(err) == [err |-> err, val |-> NoValue]
NoResult == [func |-> "none", err |-> "none", val |-> NoValue]

NoCall == [t |-> NoTrainer, n |-> 0, start_epoch |-> 0, start_lr |-> 0,
           start_params |-> 0, start_terminated |-> FALSE]

\* ------------------------------------------------------- binding registry
\* register(orchestrator, model): the binding after the call, or the error.
register(t, m) ==
    IF bound[m] # NoTrainer
    THEN [error |-> "AlreadyBoundError", bound |-> bound]
    ELSE [error |-> "none", bound |-> [bound EXCEPT ![m] = t]]

\* unbind(orchestrator, model).
unbind(t, m) ==
    IF bound[m] # t
    THEN [error |-> "NotBoundError", bound |-> bound]
    ELSE [error |-> "none", bound |-> [bound EXCEPT ![m] = NoTrainer]]

\* ------------------------------------------------------------ hook lists
\* `for hook in hooks: hook(instance)`: the callables invoked, in order, up
\* to and including the first one that raises.
\* (a variant that swallows a callable's exception and goes on)
RECURSIVE call_in_order_swallow(_, _)
call_in_order_swallow(hooks, i) ==
    IF i > Len(hooks) THEN [calls |-> <<>>, raised |-> FALSE]
    ELSE LET r == call_in_order_swallow(hooks, i + 1)
         IN  [calls |-> <<hooks[i]>> \o r.calls, raised |-> r.raised]

RECURSIVE call_in_order(_, _)
call_in_order(hooks, i) ==
    IF i > Len(hooks) THEN [calls |-> <<>>, raised |-> FALSE]
    ELSE IF hooks[i] = "raise" THEN [calls |-> <<hooks[i]>>, raised |-> TRUE]
    ELSE LET r == call_in_order(hooks, i + 1)
         IN  [calls |-> <<hooks[i]>> \o r.calls, raised |-> r.raised]

\* HookRegistry.execute(class_instance)
execute(hooks) == call_in_order(hooks, 1)

Reverse(q) == [i \in 1..Len(q) |-> q[Len(q) + 1 - i]]

\* (a variant that walks the list from its end)
exec_pre_epoch_hooks_reversed(t) ==
    call_in_order(Reverse(pre_epoch_hooks[t]), 1)

\* Trainer.exec_pre_epoch_hooks
exec_pre_epoch_hooks(t) == call_in_order(pre_epoch_hooks[t], 1)

\* Trainer.exec_post_epoch_hooks
exec_post_epoch_hooks(t) == call_in_order(post_epoch_hooks[t], 1)

\* (a variant that flips the flag instead of setting it)
terminate_training_toggle(t) == [early_termination EXCEPT ![t] = ~@]

\* Trainer.terminate_training: the flags after the call on Trainer t.
terminate_training(t) == [early_termination EXCEPT ![t] = TRUE]

Count(calls, h) == Cardinality({i \in 1..Len(calls) : calls[i] = h})

\* The flags of Trainer t after the invoked callables `calls` have run:
\* a "terminate" callable calls instance.terminate_training().
FlagsAfter(t, calls) ==
    IF Count(calls, "terminate") > 0 THEN terminate_training(t)
    ELSE early_termination

\* The events a hook list's execution appends to the log; the "validate"
\* callable runs Test.__call__, which ends with log_metrics (split VAL).
RECURSIVE HookEvents(_, _, _, _, _)
HookEvents(stage, k, calls, i, t) ==
    IF i > Len(calls) THEN <<>>
    ELSE <<Ev(stage, k, i, calls[i], t)>>
         \o (IF calls[i] = "validate" THEN <<Ev("metrics", k, 0, "val", "")>>
             ELSE <<>>)
         \o HookEvents(stage, k, calls, i + 1, t)

RECURSIVE SumOver(_, _)
SumOver(S, f) ==
    IF S = {} THEN 0
    ELSE LET x == CHOOSE y \in S : TRUE IN f[x] + SumOver(S \ {x}, f)

\* Callables registered so far through add_pre_epoch_hook,
\* add_post_epoch_hook and HookRegistry.register.
HooksRegistered ==
    SumOver(Trainers,
            [t \in Trainers |->
                Len(pre_epoch_hooks[t]) + Len(post_epoch_hooks[t])
                - Count(post_epoch_hooks[t], "validate")])
    + Len(reg_hooks)

\* An API call other than train() starts: the generator and loop state of
\* the previous train() call are gone.
NoTrainCall ==
    /\ pc' = "idle"
    /\ call' = NoCall
    /\ gen_left' = 0
    /\ it' = 0
    /\ batch_idx' = 0
    /\ silent' = FALSE

\* ------------------------------------------------------ Trainer lifecycle
\* Trainer.__init__ under @bind_to_model: no binding check, none recorded.
TrainerInitUnchecked(t, m, val) ==
    /\ pc = "idle"
    /\ model_of[t] = NoModel
    /\ result' = "ok"
    /\ model_of' = [model_of EXCEPT ![t] = m]
    /\ early_termination' = [early_termination EXCEPT ![t] = FALSE]
    /\ validation_test' = [validation_test EXCEPT ![t] = val]
    /\ pre_epoch_hooks' = [pre_epoch_hooks EXCEPT ![t] = <<>>]
    /\ post_epoch_hooks' =
           [post_epoch_hooks EXCEPT ![t] = IF val THEN <<"validate">> ELSE <<>>]
    /\ log' = <<>>
    /\ NoTrainCall
    /\ UNCHANGED <<bound, model_vars, reg_hooks>>
    /\ UNCHANGED lib_vars

\* Trainer.__init__ under @bind_to_model.
TrainerInit(t, m, val) ==
    /\ pc = "idle"
    /\ model_of[t] = NoModel
    /\ LET r == register(t, m)
       IN  /\ bound' = r.bound
           /\ IF r.error # "none"
              THEN /\ result' = r.error
                   /\ UNCHANGED trainer_vars
              ELSE /\ result' = "ok"
                   /\ model_of' = [model_of EXCEPT ![t] = m]
                   /\ early_termination' =
                          [early_termination EXCEPT ![t] = FALSE]
                   /\ validation_test' = [validation_test EXCEPT ![t] = val]
                   /\ pre_epoch_hooks' = [pre_epoch_hooks EXCEPT ![t] = <<>>]
                   /\ post_epoch_hooks' =
                          [post_epoch_hooks EXCEPT
                              ![t] = IF val THEN <<"validate">> ELSE <<>>]
    /\ log' = <<>>
    /\ NoTrainCall
    /\ UNCHANGED <<model_vars, reg_hooks>>
    /\ UNCHANGED lib_vars

\* unbind(orchestrator, model) of the binding registry.
Unbind(t, m) ==
    /\ pc = "idle"
    /\ model_of[t] # NoModel
    /\ LET r == unbind(t, m)
       IN  /\ bound' = r.bound
           /\ result' = IF r.error # "none" THEN r.error ELSE "ok"
    /\ log' = <<>>
    /\ NoTrainCall
    /\ UNCHANGED <<trainer_vars, model_vars, reg_hooks>>
    /\ UNCHANGED lib_vars

\* Trainer.terminate_training(), called by the user.
TerminateTraining(t) ==
    /\ pc = "idle"
    /\ model_of[t] # NoModel
    /\ early_termination' = terminate_training(t)
    /\ result' = IF early_termination[t] THEN "flag_was_set" ELSE "flag_set"
    /\ log' = <<>>
    /\ NoTrainCall
    /\ UNCHANGED <<bound, model_of, validation_test, pre_epoch_hooks,
                   post_epoch_hooks, model_vars, reg_hooks>>
    /\ UNCHANGED lib_vars

\* Trainer.add_pre_epoch_hook
AddPreEpochHook(t, h) ==
    /\ pc = "idle"
    /\ model_of[t] # NoModel
    /\ HooksRegistered < MaxHooks
    /\ pre_epoch_hooks' = [pre_epoch_hooks EXCEPT ![t] = Append(@, h)]
    /\ result' = "ok"
    /\ log' = <<>>
    /\ NoTrainCall
    /\ UNCHANGED <<bound, model_of, early_termination, validation_test,
                   post_epoch_hooks, model_vars, reg_hooks>>
    /\ UNCHANGED lib_vars

\* Trainer.add_post_epoch_hook
AddPostEpochHook(t, h) ==
    /\ pc = "idle"
    /\ model_of[t] # NoModel
    /\ HooksRegistered < MaxHooks
    /\ post_epoch_hooks' = [post_epoch_hooks EXCEPT ![t] = Append(@, h)]
    /\ result' = "ok"
    /\ log' = <<>>
    /\ NoTrainCall
    /\ UNCHANGED <<bound, model_of, early_termination, validation_test,
                   pre_epoch_hooks, model_vars, reg_hooks>>
    /\ UNCHANGED lib_vars

\* Trainer.validate(), called by the user: Test.__call__ on the validation
\* loader (validation_test is a no-op lambda when no loader was given).
Validate(t) ==
    /\ pc = "idle"
    /\ model_of[t] # NoModel
    /\ validation_test[t]
    /\ mode' = [mode EXCEPT ![model_of[t]] = "eval"]
    /\ log' = <<Ev("metrics", 0, 0, "val", "")>>
    /\ result' = "validated"
    /\ NoTrainCall
    /\ UNCHANGED <<bound, trainer_vars, epoch, lr, params, reg_hooks>>
    /\ UNCHANGED lib_vars

\* ------------------------------------------------------------ HookRegistry
\* HookRegistry.register
RegistryRegister(h) ==
    /\ pc = "idle"
    /\ HooksRegistered < MaxHooks
    /\ reg_hooks' = Append(reg_hooks, h)
    /\ result' = "ok"
    /\ log' = <<>>
    /\ NoTrainCall
    /\ UNCHANGED <<bound, trainer_vars, model_vars>>
    /\ UNCHANGED lib_vars

\* HookRegistry.execute(class_instance) with Trainer t as the instance.
RegistryExecute(t) ==
    /\ pc = "idle"
    /\ model_of[t] # NoModel
    /\ LET r == execute(reg_hooks)
       IN  /\ log' = HookEvents("hook", 0, r.calls, 1, t)
           /\ result' = IF r.raised THEN "HookError" ELSE "executed"
           /\ early_termination' = FlagsAfter(t, r.calls)
    /\ NoTrainCall
    /\ UNCHANGED <<bound, model_of, validation_test, pre_epoch_hooks,
                   post_epoch_hooks, model_vars, reg_hooks>>
    /\ UNCHANGED lib_vars

\* ----------------------------------------------------------- Trainer.train
\* ModelOptimizer.update_learning_rate: the rate the schedule gives for the
\* model's current epoch e (a stateless function of the epoch index).
update_learning_rate(e) == e

\* torch.isinf(criterion) or torch.isnan(criterion)
is_nonfinite(c) == c \in {"nan", "inf"}

\* (a variant whose loop forgets `self.model_tracking.epoch += 1`)
log_train_no_increment(m, k) ==
    IF gen_left > 0
    THEN [yielded |-> TRUE,
          epoch |-> epoch,
          gen_left |-> gen_left - 1,
          events |-> <<Ev("epoch", k, epoch[m], "", "")>>]
    ELSE [yielded |-> FALSE,
          epoch |-> epoch,
          gen_left |-> 0,
          events |-> <<Ev("end", k, 0, "", "")>>]

\* LogMetrics.log_train resumed, by next() or by the end of its except
\* clause: the header of `for _ in range(num_epochs)` and what follows it,
\* up to the next yield or to the generator's return.
log_train(m, k) ==
    IF gen_left > 0
    THEN [yielded |-> TRUE,
          epoch |-> [epoch EXCEPT ![m] = @ + 1],
          gen_left |-> gen_left - 1,
          events |-> <<Ev("epoch", k, epoch[m] + 1, "", "")>>]
    ELSE [yielded |-> FALSE,
          epoch |-> epoch,
          gen_left |-> 0,
          events |-> <<Ev("end", k, 0, "", "")>>]

\* train(num_epoch) is called: the generator object is created (line 258).
Train(t, n) ==
    /\ pc = "idle"
    /\ model_of[t] # NoModel
    /\ epoch[model_of[t]] + n <= MaxEpoch
    /\ call' = [t |-> t, n |-> n,
                start_epoch |-> epoch[model_of[t]],
                start_lr |-> lr[model_of[t]],
                start_params |-> params[model_of[t]],
                start_terminated |-> early_termination[t]]
    /\ gen_left' = n
    /\ it' = 0
    /\ batch_idx' = 0
    /\ log' = <<>>
    /\ result' = "running"
    /\ silent' = FALSE
    /\ pc' = "next"
    /\ UNCHANGED <<bound, trainer_vars, model_vars, reg_hooks>>
    /\ UNCHANGED lib_vars

\* (a variant of the loop body without the check of lines 260-261)
TrainNextNoCheck ==
    /\ pc = "next"
    /\ LET t == call.t
           m == model_of[t]
           g == log_train(m, it + 1)
       IN  /\ epoch' = g.epoch
           /\ gen_left' = g.gen_left
           /\ IF ~g.yielded
              THEN /\ log' = log \o g.events
                   /\ pc' = "idle"
                   /\ result' = "returned"
                   /\ UNCHANGED <<it, lr, mode>>
              ELSE /\ lr' = [lr EXCEPT
                                ![m] = update_learning_rate(g.epoch[m])]
                   /\ mode' = [mode EXCEPT ![m] = "train"]
                   /\ log' = log \o g.events
                                 \o <<Ev("lr", it + 1, g.epoch[m], "", ""),
                                      Ev("mode", it + 1, 0, "train", "")>>
                   /\ it' = it + 1
                   /\ pc' = "pre"
                   /\ UNCHANGED result
    /\ UNCHANGED <<bound, trainer_vars, params, call, batch_idx, silent,
                   reg_hooks>>
    /\ UNCHANGED lib_vars

\* `for _ in train_logger:` takes the next item, then lines 260-263.
TrainNext ==
    /\ pc = "next"
    /\ LET t == call.t
           m == model_of[t]
           g == log_train(m, it + 1)
       IN  /\ epoch' = g.epoch
           /\ gen_left' = g.gen_left
           /\ IF ~g.yielded
              THEN /\ log' = log \o g.events
                   /\ pc' = "idle"
                   /\ result' = "returned"
                   /\ UNCHANGED <<it, lr, mode>>
              ELSE IF early_termination[t]
              THEN /\ log' = log \o g.events
                   /\ it' = it + 1
                   /\ pc' = "idle"
                   /\ result' = "returned"
                   /\ UNCHANGED <<lr, mode>>
              ELSE /\ lr' = [lr EXCEPT
                                ![m] = update_learning_rate(g.epoch[m])]
                   /\ mode' = [mode EXCEPT ![m] = "train"]
                   /\ log' = log \o g.events
                                 \o <<Ev("lr", it + 1, g.epoch[m], "", ""),
                                      Ev("mode", it + 1, 0, "train", "")>>
                   /\ it' = it + 1
                   /\ pc' = "pre"
                   /\ UNCHANGED result
    /\ UNCHANGED <<bound, trainer_vars, params, call, batch_idx, silent,
                   reg_hooks>>
    /\ UNCHANGED lib_vars

\* Line 264, exec_pre_epoch_hooks, then the head of _run_epoch (275-276).
TrainPre ==
    /\ pc = "pre"
    /\ LET t == call.t
           m == model_of[t]
           r == exec_pre_epoch_hooks(t)
       IN  /\ early_termination' = FlagsAfter(t, r.calls)
           /\ IF r.raised
              THEN /\ log' = log \o HookEvents("pre", it, r.calls, 1, t)
                   /\ pc' = "idle"
                   /\ result' = "HookError"
                   /\ UNCHANGED <<mode, batch_idx>>
              ELSE /\ log' = log \o HookEvents("pre", it, r.calls, 1, t)
                                 \o <<Ev("mode", it, 0, "eval", "")>>
                   /\ pc' = "batch"
                   /\ batch_idx' = 1
                   /\ mode' = [mode EXCEPT ![m] = "eval"]
                   /\ UNCHANGED result
    /\ UNCHANGED <<bound, model_of, validation_test, pre_epoch_hooks,
                   post_epoch_hooks, epoch, lr, params, call, gen_left, it,
                   silent, reg_hooks>>
    /\ UNCHANGED lib_vars

\* One batch of _run_epoch (lines 277-295) with criterion c and outcome bw
\* of backward(); after the last batch, log_metrics (296). A
\* ConvergenceError is handled by train() (lines 267-269).
TrainBatch(c, bw) ==
    /\ pc = "batch"
    /\ LET t == call.t
           m == model_of[t]
           b == batch_idx
           seen == Ev("batch", it, b, Loader[b], "")
       IN  IF bw = "ValueError" /\ is_nonfinite(c)
           THEN LET g == log_train(m, it)
                IN  /\ epoch' = g.epoch
                    /\ gen_left' = g.gen_left
                    /\ log' = log \o <<seen, Ev("conv_error", it, b, "", "")>>
                                  \o g.events
                    /\ IF g.yielded
                       THEN /\ early_termination' =
                                   [early_termination EXCEPT ![t] = TRUE]
                            /\ pc' = "post"
                            /\ UNCHANGED result
                       ELSE /\ pc' = "idle"
                            /\ result' = "StopIteration"
                            /\ UNCHANGED early_termination
                    /\ UNCHANGED <<params, batch_idx, silent>>
           ELSE IF bw = "ValueError"
           THEN /\ log' = log \o <<seen, Ev("value_error", it, b, "", "")>>
                /\ pc' = "idle"
                /\ result' = "ValueError"
                /\ UNCHANGED <<epoch, gen_left, early_termination, params,
                               batch_idx, silent>>
           ELSE /\ params' = [params EXCEPT ![m] = @ + 1]
                /\ silent' = (silent \/ is_nonfinite(c))
                /\ log' = log \o <<seen, Ev("step", it, b, "", "")>>
                              \o (IF b = Len(Loader)
                                  THEN <<Ev("metrics", it, epoch[m],
                                            "train", "")>>
                                  ELSE <<>>)
                /\ batch_idx' = b + 1
                /\ pc' = IF b = Len(Loader) THEN "post" ELSE "batch"
                /\ UNCHANGED <<epoch, gen_left, early_termination, result>>
    /\ UNCHANGED <<bound, model_of, validation_test, pre_epoch_hooks,
                   post_epoch_hooks, lr, mode, call, it, reg_hooks>>
    /\ UNCHANGED lib_vars

\* Line 270, exec_post_epoch_hooks.
TrainPost ==
    /\ pc = "post"
    /\ LET t == call.t
           m == model_of[t]
           r == exec_post_epoch_hooks(t)
       IN  /\ early_termination' = FlagsAfter(t, r.calls)
           /\ log' = log \o HookEvents("post", it, r.calls, 1, t)
           /\ mode' = IF Count(r.calls, "validate") > 0
                      THEN [mode EXCEPT ![m] = "eval"] ELSE mode
           /\ IF r.raised
              THEN /\ pc' = "idle"
                   /\ result' = "HookError"
              ELSE /\ pc' = "next"
                   /\ UNCHANGED result
    /\ UNCHANGED <<bound, model_of, validation_test, pre_epoch_hooks,
                   post_epoch_hooks, epoch, lr, params, call, gen_left, it,
                   batch_idx, silent, reg_hooks>>
    /\ UNCHANGED lib_vars

\* ------------------------------------------------------- recursive_apply
\* Keys of the mappings: str keys, an int key and a tuple key (all hashable).
StrKeys == {"a", "b"}
KeyInt == "int 1"
KeyTuple == "tuple (1, 2)"

\* Classes of the tuples: tuple itself, a named tuple (its constructor takes
\* one argument per field), and a plain subclass of tuple (it inherits
\* tuple's constructor, which takes one iterable).
TupleClasses == {"tuple", "NamedTuple", "TupleSubclass"}

\* The leaves: a tensor (the expected type) on the "gpu" or detached on the
\* "cpu", and a str, which is neither a tensor nor a container.
TensorLeaf == Leaf("Tensor", "gpu")
StrLeaf == Leaf("str", "x")
Leaves == {TensorLeaf, StrLeaf}

\* func(obj) for the functions passed to recursive_apply.
Funcs == {"identity", "cpu_detach"}
call_func(func, leaf) ==
    IF func = "cpu_detach" THEN Leaf(leaf.cls, "cpu") ELSE leaf

\* The exception of the first outcome that raised, in iteration order.
first_error(R) ==
    IF \E i \in 1..Len(R) : R[i].err # "none"
    THEN R[CHOOSE i \in 1..Len(R) :
               /\ R[i].err # "none"
               /\ \A j \in 1..(i - 1) : R[j].err = "none"].err
    ELSE "none"

returned_values(R) == [i \in 1..Len(R) |-> R[i].val]

\* iter(value) where the constructor of a tuple subclass consumes its one
\* argument: the keys of a mapping, the items of a sequence or tuple; a
\* leaf is not iterable.
iterate(val) ==
    IF val.kind = "mapping"
    THEN Returned([i \in 1..Len(val.keys) |-> Leaf("str", val.keys[i])])
    ELSE IF val.kind \in {"sequence", "tuple"} THEN Returned(val.items)
    ELSE Raised("TypeError")

\* obj.__class__(*new), line 62, for the classes other than tuple.
construct(cls, vals) ==
    IF cls = "NamedTuple" THEN Returned(Tuple(cls, vals))
    ELSE IF Len(vals) = 0 THEN Returned(Tuple(cls, <<>>))
    ELSE IF Len(vals) = 1
    THEN LET elems == iterate(vals[1])
         IN  IF elems.err # "none" THEN Raised(elems.err)
             ELSE Returned(Tuple(cls, elems.val))
    ELSE Raised("TypeError")

\* recursive_apply(obj, expected_type, func). FuncNotApplicableError and
\* NamedTupleOnlyError are the library's own exceptions, neither a TypeError
\* nor a ValueError, so the except clauses of lines 63 and 66 let them pass.
RECURSIVE recursive_apply(_, _, _)
recursive_apply(o, expected_type, func) ==
    IF o.kind = "leaf" /\ o.cls = expected_type
    THEN Returned(call_func(func, o))                          \* lines 40-41
    ELSE IF o.kind = "leaf"
    THEN Raised("FuncNotApplicableError")                      \* lines 70-71
    ELSE LET R == [i \in 1..Len(o.items) |->
                      recursive_apply(o.items[i], expected_type, func)]
             e == first_error(R)
         IN  IF o.kind = "mapping"                             \* lines 43-49
             THEN IF e # "none" THEN Raised(e)
                  \* update(**{...}): keywords must be strings
                  ELSE IF \E i \in 1..Len(o.keys) : o.keys[i] \notin StrKeys
                  THEN Raised("TypeError")
                  ELSE Returned(Mapping(o.keys, returned_values(R)))
             ELSE IF o.kind = "sequence"                       \* lines 51-55
             THEN IF e # "none" THEN Raised(e)
                  ELSE Returned(MutableSequence(returned_values(R)))
             ELSE IF o.cls = "tuple"                           \* lines 57-60
             THEN IF e \in {"TypeError", "ValueError"}
                  THEN Raised("FuncNotApplicableError")        \* lines 66-68
                  ELSE IF e # "none" THEN Raised(e)
                  ELSE Returned(Tuple("tuple", returned_values(R)))
             ELSE LET c == IF e # "none" THEN Raised(e)        \* lines 61-64
                           ELSE construct(o.cls, returned_values(R))
                  IN  IF c.err = "TypeError"
                      THEN Raised("NamedTupleOnlyError")
                      ELSE IF c.err = "ValueError"
                      THEN Raised("FuncNotApplicableError")    \* lines 66-68
                      ELSE c

RECURSIVE Depth(_)
Depth(o) ==
    IF o.kind = "leaf" THEN 0
    ELSE 1 + (IF o.items = <<>> THEN 0
              ELSE LET d == [i \in 1..Len(o.items) |-> Depth(o.items[i])]
                   IN  CHOOSE x \in {d[i] : i \in 1..Len(d)} :
                           \A i \in 1..Len(d) : d[i] <= x)

\* The item lists a new container is given: nothing, the structure at hand,
\* or the structure at hand beside a leaf.
ItemLists ==
    {<<>>, <<obj>>} \cup {<<obj, l>> : l \in Leaves}
                    \cup {<<l, obj>> : l \in Leaves}

\* The key lists a new mapping of n items is given.
KeyLists(n) ==
    IF n = 0 THEN {<<>>}
    ELSE IF n = 1 THEN {<<"a">>, <<KeyInt>>, <<KeyTuple>>}
    ELSE {<<"a", "b">>, <<"a", KeyInt>>}

\* The caller takes a leaf as the structure at hand.
NewLeaf(l) ==
    /\ obj' = l
    /\ applied' = NoResult
    /\ UNCHANGED not_apply_vars

\* The caller puts the structure at hand into a new mapping.
NewMapping(keys, items) ==
    /\ Depth(obj) < MaxDepth
    /\ obj' = Mapping(keys, items)
    /\ applied' = NoResult
    /\ UNCHANGED not_apply_vars

\* The caller puts the structure at hand into a new list.
NewSequence(items) ==
    /\ Depth(obj) < MaxDepth
    /\ obj' = MutableSequence(items)
    /\ applied' = NoResult
    /\ UNCHANGED not_apply_vars

\* The caller puts the structure at hand into a new tuple of class cls.
NewTuple(cls, items) ==
    /\ Depth(obj) < MaxDepth
    /\ obj' = Tuple(cls, items)
    /\ applied' = NoResult
    /\ UNCHANGED not_apply_vars

\* recursive_apply(obj, torch.Tensor, func) is called on the structure.
RecursiveApply(func) ==
    /\ applied = NoResult
    /\ LET r == recursive_apply(obj, "Tensor", func)
       IN  applied' = [func |-> func, err |-> r.err, val |-> r.val]
    /\ UNCHANGED <<obj, not_apply_vars>>

\* --------------------------------------------------------- TorchAggregate
\* A tensor of integers: its shape and its elements in row-major order.
Tensor(shape, data) == [shape |-> shape, data |-> data]

\* The metric values handed to the aggregator: a 0-d tensor (no batch
\* dimension), batches of 0, 1 and 2 values per sample, and batches whose
\* samples have one or two components.
Tensors ==
    {Tensor(<<>>, <<2>>), Tensor(<<0>>, <<>>), Tensor(<<1>>, <<1>>),
     Tensor(<<2>>, <<1, 2>>), Tensor(<<2, 1>>, <<2, 2>>),
     Tensor(<<2, 2>>, <<1, 1, 1, 1>>)}

\* Metric names as the caller writes them, as sequences of characters.
Names == {<<"l", "r">>, <<"L", "r">>, <<"a">>}

\* str.upper on one character.
upper(c) == IF c = "l" THEN "L" ELSE IF c = "a" THEN "A" ELSE c

\* TorchAggregate._format_key: key[0].upper() + key[1:]
format_key(key) == <<upper(key[1])>> \o Tail(key)

RECURSIVE SumSeq(_)
SumSeq(q) == IF q = <<>> THEN 0 ELSE Head(q) + SumSeq(Tail(q))

RECURSIVE Product(_)
Product(q) == IF q = <<>> THEN 1 ELSE Head(q) * Product(Tail(q))

\* Tensor.numel()
numel(value) == Product(value.shape)

\* Tensor.sum(0): the sum over the first dimension; a 0-d tensor takes 0 as
\* its dimension and is returned as it is.
sum0(value) ==
    IF value.shape = <<>> THEN value
    ELSE LET rest == Tail(value.shape)
             r == Product(rest)
         IN  Tensor(rest,
                    [j \in 1..r |->
                        SumSeq([b \in 1..Head(value.shape) |->
                                   value.data[(b - 1) * r + j]])])

\* TorchAggregate._aggregate: value.sum(0).item(); item() raises
\* RuntimeError unless the tensor has exactly one element.
aggregate_value(value) ==
    LET s == sum0(value)
    IN  IF numel(s) = 1 THEN [err |-> "none", val |-> s.data[1]]
        ELSE [err |-> "NotBatchedError", val |-> 0]

\* TorchAggregate(): both dictionaries empty (functions over no key).
EmptyAggregate == [aggregate |-> <<>>, counts |-> <<>>]

\* d[key] = x on a dictionary d.
SetItem(d, key, x) ==
    [k \in DOMAIN d \cup {key} |-> IF k = key THEN x ELSE d[k]]

\* d[key] += x on a defaultdict d whose default is 0.
AddItem(d, key, x) ==
    [k \in DOMAIN d \cup {key} |->
        IF k = key THEN (IF key \in DOMAIN d THEN d[key] ELSE 0) + x
        ELSE d[k]]

\* TorchAggregate.__setitem__: the aggregate after self[key] = value, or
\* the error raised (by _aggregate, before anything is assigned).
setitem(self, key, value) ==
    LET k == format_key(key)
        a == aggregate_value(value)
    IN  IF a.err # "none" THEN [err |-> a.err, val |-> self]
        ELSE [err |-> "none",
              val |-> [aggregate |-> SetItem(self.aggregate, k, a.val),
                       counts |-> SetItem(self.counts, k, numel(value))]]

\* (a variant of __iadd__ that assigns the other operand's entries instead
\* of adding them)
RECURSIVE iadd_assign(_, _, _)
iadd_assign(self, other, keys) ==
    IF keys = {} THEN self
    ELSE LET k == CHOOSE x \in keys : TRUE
         IN  iadd_assign([aggregate |->
                              SetItem(self.aggregate, k, other.aggregate[k]),
                          counts |-> SetItem(self.counts, k, other.counts[k])],
                         other, keys \ {k})

\* TorchAggregate.__iadd__ with another aggregate: the loops of lines 40-43
\* over the keys of `other` still to visit.
RECURSIVE iadd(_, _, _)
iadd(self, other, keys) ==
    IF keys = {} THEN self
    ELSE LET k == CHOOSE x \in keys : TRUE
         IN  iadd([aggregate |->
                       AddItem(self.aggregate, k, other.aggregate[k]),
                   counts |-> AddItem(self.counts, k, other.counts[k])],
                  other, keys \ {k})

\* TorchAggregate.__add__: a copy of self, then += other.
add(self, other) == iadd(self, other, DOMAIN other.aggregate)

RECURSIVE GCD(_, _)
GCD(a, b) == IF b = 0 THEN a ELSE GCD(b, a % b)

\* TorchAggregate.reduce: sum / count per key, as a fraction in lowest
\* terms; a count of 0 raises ZeroDivisionError.
reduce(self) ==
    IF \E k \in DOMAIN self.counts : self.counts[k] = 0
    THEN [err |-> "ZeroDivisionError", val |-> <<>>]
    ELSE [err |-> "none",
          val |-> [k \in DOMAIN self.aggregate |->
                      LET g == GCD(self.aggregate[k], self.counts[k])
                      IN  <<self.aggregate[k] \div g, self.counts[k] \div g>>]]

FormattedNames == {format_key(n) : n \in Names}

\* No aggregate has been updated yet.
NoUpdate == [key |-> <<>>, value |-> Tensor(<<>>, <<>>), err |-> "none",
             before |-> EmptyAggregate, after |-> EmptyAggregate]

\* Sub-batches of metric values handed to aggregates so far.
NumSubBatches == SumOver(FormattedNames,
                         [k \in FormattedNames |-> Len(parts[k])])

RemoveAt(q, i) == [j \in 1..(Len(q) - 1) |-> IF j < i THEN q[j] ELSE q[j + 1]]

\* TorchAggregate(**{key: value}): one aggregate for one sub-batch.
AggregateInit(key, value) ==
    /\ NumSubBatches < MaxParts
    /\ LET r == setitem(EmptyAggregate, key, value)
       IN  /\ agg_last' = [key |-> key, value |-> value, err |-> r.err,
                           before |-> EmptyAggregate, after |-> r.val]
           /\ IF r.err # "none" THEN UNCHANGED <<pool, parts>>
              ELSE /\ pool' = Append(pool, r.val)
                   /\ parts' = [parts EXCEPT ![format_key(key)] =
                                               Append(@, value.data)]
    /\ UNCHANGED not_agg_vars

\* pool[i] += {key: value}: __iadd__ with a mapping, which builds
\* TorchAggregate(**other) first (lines 38-39).
AggregateIAddMapping(i, key, value) ==
    /\ NumSubBatches < MaxParts
    /\ i \in 1..Len(pool)
    /\ LET r == setitem(EmptyAggregate, key, value)
           out == iadd(pool[i], r.val, DOMAIN r.val.aggregate)
       IN  IF r.err # "none"
           THEN /\ agg_last' = [key |-> key, value |-> value, err |-> r.err,
                                before |-> pool[i], after |-> pool[i]]
                /\ UNCHANGED <<pool, parts>>
           ELSE /\ agg_last' = [key |-> key, value |-> value, err |-> "none",
                                before |-> pool[i], after |-> out]
                /\ pool' = [pool EXCEPT ![i] = out]
                /\ parts' = [parts EXCEPT ![format_key(key)] =
                                            Append(@, value.data)]
    /\ UNCHANGED not_agg_vars

\* pool[i] + pool[j]: the operands are dropped and the sum is kept.
AggregateAdd(i, j) ==
    /\ i \in 1..Len(pool)
    /\ j \in 1..Len(pool)
    /\ i # j
    /\ pool' = Append(RemoveAt(RemoveAt(pool, IF i > j THEN i ELSE j),
                               IF i > j THEN j ELSE i),
                      add(pool[i], pool[j]))
    /\ UNCHANGED <<parts, agg_last, not_agg_vars>>

\* pool[i] += pool[j]: pool[i] is updated in place and pool[j] is dropped.
AggregateIAdd(i, j) ==
    /\ i \in 1..Len(pool)
    /\ j \in 1..Len(pool)
    /\ i # j
    /\ pool' = RemoveAt([pool EXCEPT ![i] = iadd(pool[i], pool[j],
                                                  DOMAIN pool[j].aggregate)],
                        j)
    /\ UNCHANGED <<parts, agg_last, not_agg_vars>>

\* ------------------------------------------------------------- Evaluation
\* The evaluations constructed by the caller; all are given the caller's
\* one metric object, and each owns the objective object named after it.
Evals == {"e1", "e2"}
Metric == "metric"
NoObject == "no_object"
Objects == {Metric} \cup Evals

\* sys.maxsize, the default of Evaluation.max_stored_output.
sys_maxsize == 2147483647
\* The values max_stored_output is configured with.
Caps == {1, sys_maxsize}

\* What the model returns for a batch: a tensor, a list holding a str, a
\* tuple subclass of two tensors, a dict with an int key.
Outputs ==
    {TensorLeaf,
     MutableSequence(<<TensorLeaf, StrLeaf>>),
     Tuple("TupleSubclass", <<TensorLeaf, TensorLeaf>>),
     Mapping(<<KeyInt>>, <<TensorLeaf>>)}

NoEvalCall == [e |-> NoObject, store_outputs |-> FALSE, state |-> "idle",
               batch_idx |-> 0, start_params |-> 0, start_epoch |-> 0]

\* (a variant of line 95 that keeps the object it was given)
deepcopy_alias(o, e) == o

\* copy.deepcopy(metric), line 95: the new object, owned by evaluation e.
deepcopy(o, e) == e

\* (a variant of reset() that leaves the accumulated state in place)
reset_noop(a, o) == a

\* objective.reset()
reset(a, o) == [a EXCEPT ![o] = <<>>]

\* objective.update(outputs, targets) for one batch, line 119.
update(a, o, batch) == [a EXCEPT ![o] = Append(@, batch)]

\* recursive_cpu_detach(obj) for an obj without attributes: lines 126-128.
recursive_cpu_detach(o) == recursive_apply(o, "Tensor", "cpu_detach")

\* (a variant of _store without the try / except of lines 156-160)
store_unguarded(list, outputs) ==
    LET r == recursive_cpu_detach(outputs)
    IN  IF r.err # "none"
        THEN [raised |-> r.err, err |-> r.err, warning |-> "none",
              list |-> list]
        ELSE [raised |-> "none", err |-> "none", warning |-> "none",
              list |-> Append(list, r.val)]

\* Evaluation._store: what apply_cpu_detach raised, the error that escapes,
\* the warning issued and the outputs list after the call.
store(list, outputs) ==
    LET r == recursive_cpu_detach(outputs)
    IN  IF r.err \in {"FuncNotApplicableError", "NamedTupleOnlyError"}
        THEN [raised |-> r.err, err |-> "none", warning |-> r.err,
              list |-> list]
        ELSE IF r.err # "none"
        THEN [raised |-> r.err, err |-> r.err, warning |-> "none",
              list |-> list]
        ELSE [raised |-> "none", err |-> "none", warning |-> "none",
              list |-> Append(list, r.val)]

\* Evaluation.__init__, with max_stored_output configured as cap.
EvaluationInit(e, cap) ==
    /\ ev_call.state # "running"
    /\ objective[e] = NoObject
    /\ LET o == deepcopy(Metric, e)
       IN  /\ objective' = [objective EXCEPT ![e] = o]
           /\ acc' = reset([acc EXCEPT ![o] = acc[Metric]], o)
    /\ outputs_list' = [outputs_list EXCEPT ![e] = <<>>]
    /\ max_stored_output' = [max_stored_output EXCEPT ![e] = cap]
    /\ UNCHANGED <<ev_call, ev_log, mode, not_eval_vars>>

\* The caller updates its own metric object with a batch.
MetricUpdate(batch) ==
    /\ ev_call.state # "running"
    /\ acc[Metric] = <<>>
    /\ acc' = update(acc, Metric, batch)
    /\ UNCHANGED <<objective, outputs_list, max_stored_output, ev_call,
                   ev_log, mode, not_eval_vars>>

\* Diagnostic.__call__(store_outputs) up to the loop of _run_epoch:
\* module.eval(), outputs_list.clear(), objective.reset().
DiagnosticCall(e, store_outputs) ==
    /\ ev_call.state # "running"
    /\ objective[e] # NoObject
    /\ ev_call' = [e |-> e, store_outputs |-> store_outputs,
                   state |-> "running", batch_idx |-> 1,
                   start_params |-> params["m1"],
                   start_epoch |-> epoch["m1"]]
    /\ mode' = [mode EXCEPT !["m1"] = "eval"]
    /\ outputs_list' = [outputs_list EXCEPT ![e] = <<>>]
    /\ acc' = reset(acc, objective[e])
    /\ ev_log' = <<Ev("mode", 0, 0, "eval", e), Ev("clear", 0, 0, "", e),
                   Ev("reset", 0, 0, "", e)>>
    /\ UNCHANGED <<objective, max_stored_output, not_eval_vars>>

\* One iteration of the loop of _run_epoch (lines 135-139) on a batch for
\* which the model returns `outputs`; after the last batch, _log_metrics.
EvalBatch(outputs) ==
    /\ ev_call.state = "running"
    /\ LET e == ev_call.e
           b == ev_call.batch_idx
           s == IF ev_call.store_outputs THEN store(outputs_list[e], outputs)
                ELSE [raised |-> "none", err |-> "none", warning |-> "none",
                      list |-> outputs_list[e]]
           stored == (IF s.raised # "none"
                      THEN <<Ev("store_raised", 0, b, s.raised, e)>>
                      ELSE <<>>)
                     \o (IF s.warning # "none"
                         THEN <<Ev("warning", 0, b, s.warning, e)>>
                         ELSE <<>>)
                     \o (IF s.list # outputs_list[e]
                         THEN <<Ev("stored", 0, b, "", e)>>
                         ELSE <<>>)
       IN  /\ acc' = update(acc, objective[e], Loader[b])
           /\ outputs_list' = [outputs_list EXCEPT ![e] = s.list]
           /\ IF s.err # "none"
              THEN /\ ev_log' = ev_log \o <<Ev("update", 0, b, Loader[b], e)>>
                                       \o stored
                   /\ ev_call' = [ev_call EXCEPT !.state = s.err,
                                                  !.batch_idx = b + 1]
              ELSE IF b = Len(Loader)
              THEN /\ ev_log' = ev_log \o <<Ev("update", 0, b, Loader[b], e)>>
                                       \o stored
                                       \o <<Ev("metrics", 0, epoch["m1"],
                                               "eval", e)>>
                   /\ ev_call' = [ev_call EXCEPT !.state = "returned",
                                                  !.batch_idx = b + 1]
              ELSE /\ ev_log' = ev_log \o <<Ev("update", 0, b, Loader[b], e)>>
                                       \o stored
                   /\ ev_call' = [ev_call EXCEPT !.batch_idx = b + 1]
    /\ UNCHANGED <<objective, max_stored_output, mode, not_eval_vars>>

\* --------------------------------------------------------------- DictList
\* The dictionaries given to a DictList: their keys in insertion order; the
\* value under key k of the dictionary tagged v is <<k, v>>.
KeyOrders == {<<>>, <<"a">>, <<"b">>, <<"a", "b">>, <<"b", "a">>}
Dicts == {[keys |-> ks, tag |-> v] : ks \in KeyOrders, v \in 1..2}

\* set(q) of a tuple q.
Range(q) == {q[i] : i \in 1..Len(q)}

\* DictList.set_keys
set_keys(keys, value) ==
    IF keys # <<>> THEN [err |-> "KeysAlreadySetError", keys |-> keys]
    ELSE [err |-> "none", keys |-> value]

\* DictList._validate_dict: the error raised, the list's keys after the
\* call and the tuple of values in the order of those keys.
validate_dict(keys, input_dict) ==
    LET sk == IF Range(keys) # Range(input_dict.keys)
              THEN set_keys(keys, input_dict.keys)
              ELSE [err |-> "none", keys |-> keys]
    IN  [err |-> sk.err,
         keys |-> sk.keys,
         item |-> IF sk.err # "none" THEN <<>>
                  ELSE [i \in 1..Len(sk.keys) |->
                           <<sk.keys[i], input_dict.tag>>]]

\* list.extend(map(self._validate_dict, iterable)): the dictionaries are
\* validated and appended one at a time, up to the first that raises.
RECURSIVE validate_iterable(_, _, _)
validate_iterable(keys, list, iterable) ==
    IF iterable = <<>> THEN [err |-> "none", keys |-> keys, list |-> list]
    ELSE LET r == validate_dict(keys, Head(iterable))
         IN  IF r.err # "none"
             THEN [err |-> r.err, keys |-> r.keys, list |-> list]
             ELSE validate_iterable(r.keys, Append(list, r.item),
                                    Tail(iterable))

\* list.insert(index, x) for 0 <= index <= len(list).
InsertAt(q, index, x) ==
    SubSeq(q, 1, index) \o <<x>> \o SubSeq(q, index + 1, Len(q))

\* DictList.append
DictListAppend(input_dict) ==
    /\ Len(dl_list) < MaxLen
    /\ LET r == validate_dict(dl_keys, input_dict)
       IN  /\ dl_keys' = r.keys
           /\ dl_list' = IF r.err # "none" THEN dl_list
                         ELSE Append(dl_list, r.item)
           /\ dl_result' = [op |-> "append", err |-> r.err]
    /\ UNCHANGED not_dl_vars

\* DictList.insert
DictListInsert(index, input_dict) ==
    /\ Len(dl_list) < MaxLen
    /\ index \in 0..Len(dl_list)
    /\ LET r == validate_dict(dl_keys, input_dict)
       IN  /\ dl_keys' = r.keys
           /\ dl_list' = IF r.err # "none" THEN dl_list
                         ELSE InsertAt(dl_list, index, r.item)
           /\ dl_result' = [op |-> "insert", err |-> r.err]
    /\ UNCHANGED not_dl_vars

\* DictList.__setitem__ with an index and a dictionary (lines 319-324);
\* index len(list) is out of range.
DictListSetItem(index, input_dict) ==
    /\ index \in 0..Len(dl_list)
    /\ LET r == validate_dict(dl_keys, input_dict)
       IN  /\ dl_keys' = r.keys
           /\ IF r.err # "none"
              THEN /\ dl_list' = dl_list
                   /\ dl_result' = [op |-> "setitem", err |-> r.err]
              ELSE IF index = Len(dl_list)
              THEN /\ dl_list' = dl_list
                   /\ dl_result' = [op |-> "setitem", err |-> "IndexError"]
              ELSE /\ dl_list' = [dl_list EXCEPT ![index + 1] = r.item]
                   /\ dl_result' = [op |-> "setitem", err |-> "none"]
    /\ UNCHANGED not_dl_vars

\* DictList.extend with a list of dictionaries (line 130).
DictListExtend(iterable) ==
    /\ Len(dl_list) + Len(iterable) <= MaxLen
    /\ LET r == validate_iterable(dl_keys, dl_list, iterable)
       IN  /\ dl_keys' = r.keys
           /\ dl_list' = r.list
           /\ dl_result' = [op |-> "extend", err |-> r.err]
    /\ UNCHANGED not_dl_vars

\* DictList.clear
DictListClear ==
    /\ dl_list' = <<>>
    /\ dl_result' = [op |-> "clear", err |-> "none"]
    /\ UNCHANGED <<dl_keys, not_dl_vars>>

\* DictList._item_to_dict: dict(zip(self._keys, item)), which stops at the
\* shorter of the two.
item_to_dict(keys, item) ==
    LET n == IF Len(item) < Len(keys) THEN Len(item) ELSE Len(keys)
    IN  [k \in {keys[j] : j \in 1..n} |->
            item[CHOOSE j \in 1..n : keys[j] = k]]

\* DictList.pop(index) and DictList.__delitem__(index), 0 <= index < len.
DictListPop(index) ==
    /\ index \in 0..(Len(dl_list) - 1)
    /\ dl_list' = SubSeq(dl_list, 1, index)
                      \o SubSeq(dl_list, index + 2, Len(dl_list))
    /\ dl_result' = [op |-> "pop", err |-> "none"]
    /\ UNCHANGED <<dl_keys, not_dl_vars>>

\* DictList.__setitem__ with the slice [start:stop] and a list of
\* dictionaries (lines 325-329): list.__setitem__ first takes all the
\* items of the map object, then replaces the slice.
DictListSetSlice(start, stop, iterable) ==
    /\ start <= stop
    /\ stop <= Len(dl_list)
    /\ Len(dl_list) - (stop - start) + Len(iterable) <= MaxLen
    /\ LET r == validate_iterable(dl_keys, <<>>, iterable)
       IN  /\ dl_keys' = r.keys
           /\ dl_list' = IF r.err # "none" THEN dl_list
                         ELSE SubSeq(dl_list, 1, start) \o r.list
                                  \o SubSeq(dl_list, stop + 1, Len(dl_list))
           /\ dl_result' = [op |-> "setslice", err |-> r.err]
    /\ UNCHANGED not_dl_vars

\* ----------------------------------------------------------- CheckpointIO
\* The checkpoint store of a model: for each epoch number, the parameters
\* saved under it, or NoCheckpoint.
NoCheckpoint == -1
EmptyStore == [e \in 0..MaxEpoch |-> NoCheckpoint]
SavedEpochs(files) == {e \in 0..MaxEpoch : files[e] # NoCheckpoint}
Max(S) == CHOOSE x \in S : \A y \in S : y <= x

\* CheckpointIO.save(replace_previous): the store after the snapshot of the
\* parameters p was written under epoch e.
save(files, e, p, replace_previous) ==
    IF replace_previous THEN [EmptyStore EXCEPT ![e] = p]
    ELSE [files EXCEPT ![e] = p]

\* (a variant of load that restores the parameters but not the counter)
load_keep_epoch(files, e, now) ==
    LET S == SavedEpochs(files)
        E == IF e = -1 /\ S # {} THEN Max(S) ELSE e
    IN  IF E \notin S
        THEN [err |-> "CheckpointNotFoundError", epoch |-> 0, params |-> 0]
        ELSE [err |-> "none", epoch |-> now, params |-> files[E]]

\* CheckpointIO.load(epoch) with the counter at `now`: -1 is resolved to
\* the highest epoch in the store.
load(files, e, now) ==
    LET S == SavedEpochs(files)
        E == IF e = -1 /\ S # {} THEN Max(S) ELSE e
    IN  IF E \notin S
        THEN [err |-> "CheckpointNotFoundError", epoch |-> 0, params |-> 0]
        ELSE [err |-> "none", epoch |-> E, params |-> files[E]]

NoSave == [epoch |-> -1, params |-> 0]

\* Trainer.save_checkpoint
SaveCheckpoint(t, replace_previous) ==
    /\ pc = "idle"
    /\ model_of[t] # NoModel
    /\ LET m == model_of[t]
       IN  /\ ckpt' = [ckpt EXCEPT
                          ![m] = save(@, epoch[m], params[m], replace_previous)]
           /\ last_save' = [epoch |-> epoch[m], params |-> params[m]]
    /\ result' = "saved"
    /\ log' = <<>>
    /\ NoTrainCall
    /\ UNCHANGED <<bound, trainer_vars, model_vars, reg_hooks, loads>>
    /\ UNCHANGED not_ckpt_vars

\* Trainer.load_checkpoint
LoadCheckpoint(t, e) ==
    /\ pc = "idle"
    /\ model_of[t] # NoModel
    /\ loads < MaxLoads
    /\ LET m == model_of[t]
           r == load(ckpt[m], e, epoch[m])
       IN  IF r.err # "none"
           THEN /\ result' = r.err
                /\ UNCHANGED <<epoch, params>>
           ELSE /\ result' = "loaded"
                /\ epoch' = [epoch EXCEPT ![m] = r.epoch]
                /\ params' = [params EXCEPT ![m] = r.params]
    /\ loads' = loads + 1
    /\ log' = <<>>
    /\ NoTrainCall
    /\ UNCHANGED <<bound, trainer_vars, lr, mode, reg_hooks, ckpt, last_save>>
    /\ UNCHANGED not_ckpt_vars

\* ------------------------------------------------- early_stopping_callback
\* The values the monitored metric takes, and float('inf').
Metrics == 0..2
Inf == 99

MinOf(q) == CHOOSE x \in Range(q) : \A y \in Range(q) : x <= y

\* monitor_log[metric_name][-(patience + 1):]
last_results(monitor_log, patience) ==
    IF Len(monitor_log) <= patience + 1 THEN monitor_log
    ELSE SubSeq(monitor_log, Len(monitor_log) - patience, Len(monitor_log))

\* The closure `call` of early_stopping_callback with aggregate_fun=np.min,
\* min_delta=0, lower_is_best=True, baseline=None, in a model at epoch
\* `now`: whether it terminates the training, and best_result after the
\* call.
early_stopping_call(best_result, monitor_log, patience, start, now) ==
    LET aggregated_result == MinOf(last_results(monitor_log, patience))
        condition == best_result + 0 <= aggregated_result
    IN  IF now < start
        THEN [terminate |-> FALSE, best_result |-> best_result]
        ELSE [terminate |-> condition,
              best_result |-> IF condition THEN best_result
                              ELSE aggregated_result]

\* early_stopping_callback(patience, start_from_epoch) is constructed and
\* registered as a post-epoch hook of a new Trainer.
EarlyStoppingCallback(patience, start_from_epoch) ==
    /\ es_patience' = patience
    /\ es_start' = start_from_epoch
    /\ es_best' = Inf
    /\ es_log' = <<>>
    /\ es_terminated' = FALSE
    /\ UNCHANGED not_es_vars

\* An epoch ends: the validation hook logs the metric value v, then the
\* early-stopping hook is called with the Trainer.
EarlyStoppingEpoch(v) ==
    /\ es_patience >= 0
    /\ ~es_terminated
    /\ Len(es_log) < MaxLog
    /\ LET monitor_log == Append(es_log, v)
           r == early_stopping_call(es_best, monitor_log, es_patience,
                                    es_start, Len(monitor_log))
       IN  /\ es_log' = monitor_log
           /\ es_best' = r.best_result
           /\ es_terminated' = r.terminate
    /\ UNCHANGED <<es_patience, es_start, not_es_vars>>

\* -------------------------------------------------------------- Experiment
\* The Experiment objects: three made by the caller, and the unnamed one
\* that Experiment.current() makes when there is no current experiment.
Experiments == {"A", "B", "C", "unnamed"}
NoExperiment == "None"

\* Experiment.stop: `self._current = None` binds an attribute of the
\* instance; the class attribute Experiment._current is not assigned.
stop(self, cls_current, shadowed) ==
    [cls_current |-> cls_current, shadowed |-> shadowed \cup {self}]

\* The value of `self._current`: the instance attribute when the instance
\* has one, otherwise the class attribute.
self_current(self, cls_current, shadowed) ==
    IF self \in shadowed THEN NoExperiment ELSE cls_current

\* Experiment.activate
activate(self, cls_current, shadowed) ==
    LET s == IF self_current(self, cls_current, shadowed) # NoExperiment
             THEN stop(self, cls_current, shadowed)
             ELSE [cls_current |-> cls_current, shadowed |-> shadowed]
    IN  [cls_current |-> self, shadowed |-> s.shadowed]

\* Experiment.__init__ (its last two lines, 112-113).
ExperimentInit(e) ==
    /\ e # "unnamed"
    /\ e \notin past_experiments
    /\ past_experiments' = past_experiments \cup {e}
    /\ LET r == activate(e, exp_current, exp_shadowed)
       IN  /\ exp_current' = r.cls_current
           /\ exp_shadowed' = r.shadowed
    /\ exp_last' = [op |-> "init", e |-> e]
    /\ UNCHANGED not_exp_vars

\* exp.activate(), called by the user.
ExperimentActivate(e) ==
    /\ e \in past_experiments
    /\ LET r == activate(e, exp_current, exp_shadowed)
       IN  /\ exp_current' = r.cls_current
           /\ exp_shadowed' = r.shadowed
    /\ exp_last' = [op |-> "activate", e |-> e]
    /\ UNCHANGED <<past_experiments, not_exp_vars>>

\* exp.stop(), called by the user.
ExperimentStop(e) ==
    /\ e \in past_experiments
    /\ LET r == stop(e, exp_current, exp_shadowed)
       IN  /\ exp_current' = r.cls_current
           /\ exp_shadowed' = r.shadowed
    /\ exp_last' = [op |-> "stop", e |-> e]
    /\ UNCHANGED <<past_experiments, not_exp_vars>>

\* Experiment.current(): the class attribute, or a new unnamed experiment
\* that is constructed (and so activated) and activated again.
ExperimentCurrent ==
    /\ IF exp_current # NoExperiment
       THEN /\ exp_last' = [op |-> "current", e |-> exp_current]
            /\ UNCHANGED <<exp_current, exp_shadowed, past_experiments>>
       ELSE LET r1 == activate("unnamed", exp_current, exp_shadowed)
                r2 == activate("unnamed", r1.cls_current, r1.shadowed)
            IN  /\ past_experiments' = past_experiments \cup {"unnamed"}
                /\ exp_current' = r2.cls_current
                /\ exp_shadowed' = r2.shadowed
                /\ exp_last' = [op |-> "current", e |-> "unnamed"]
    /\ UNCHANGED not_exp_vars

\* ---------------------------------------------- Experiment.link_to_hydra
\* DefaultName.__call__: the counter after the call and the name returned,
\* the prefix alone for counter 0, else the prefix and the counter.
default_name(count_defaults) ==
    LET c == count_defaults + 1
    IN  [count_defaults |-> c,
         name |-> IF c = 0 THEN <<"hydra_outputs">>
                  ELSE <<"hydra_outputs", c>>]

LinkNames ==
    {<<"hydra_outputs">>} \cup {<<"hydra_outputs", c>> : c \in 1..MaxLinks}

\* The experiment directory already holds an entry of that name.
ExistingLink(name) ==
    /\ hy_pc = "idle"
    /\ name \notin hy_links
    /\ hy_links' = hy_links \cup {name}
    /\ UNCHANGED <<hy_pc, hy_count, hy_created, not_hy_vars>>

\* Experiment(..., link_to_hydra=True) calls self.link_to_hydra(): hydra is
\* imported and its output directory read (lines 117-124).
LinkToHydra ==
    /\ hy_pc = "idle"
    /\ hy_pc' = "loop"
    /\ hy_created' = 0
    /\ UNCHANGED <<hy_links, hy_count, not_hy_vars>>

\* One iteration of `while True` (lines 126-134); hydra's output directory
\* exists, so the test of line 131 is false.
LinkToHydraStep ==
    /\ hy_pc = "loop"
    /\ hy_count < MaxLinks
    /\ LET d == default_name(hy_count)
       IN  /\ hy_count' = d.count_defaults
           /\ IF d.name \in hy_links
              THEN UNCHANGED <<hy_links, hy_created>>
              ELSE /\ hy_links' = hy_links \cup {d.name}
                   /\ hy_created' = hy_created + 1
    /\ hy_pc' = "loop"
    /\ UNCHANGED not_hy_vars

\* ------------------------------------------------------------ initial state
Init ==
    /\ bound = [m \in Models |-> NoTrainer]
    /\ model_of = [t \in Trainers |-> NoModel]
    /\ early_termination = [t \in Trainers |-> FALSE]
    /\ validation_test = [t \in Trainers |-> FALSE]
    /\ pre_epoch_hooks = [t \in Trainers |-> <<>>]
    /\ post_epoch_hooks = [t \in Trainers |-> <<>>]
    /\ epoch = [m \in Models |-> 0]
    /\ lr = [m \in Models |-> 0]
    /\ params = [m \in Models |-> 0]
    /\ mode = [m \in Models |-> "train"]
    /\ pc = "idle"
    /\ call = NoCall
    /\ gen_left = 0
    /\ it = 0
    /\ batch_idx = 0
    /\ log = <<>>
    /\ result = "none"
    /\ silent = FALSE
    /\ reg_hooks = <<>>
    /\ obj = Leaf("Tensor", "gpu")
    /\ applied = NoResult
    /\ pool = <<>>
    /\ parts = [k \in FormattedNames |-> <<>>]
    /\ agg_last = NoUpdate
    /\ objective = [e \in Evals |-> NoObject]
    /\ acc = [o \in Objects |-> <<>>]
    /\ outputs_list = [e \in Evals |-> <<>>]
    /\ max_stored_output = [e \in Evals |-> sys_maxsize]
    /\ ev_call = NoEvalCall
    /\ ev_log = <<>>
    /\ dl_keys = <<>>
    /\ dl_list = <<>>
    /\ dl_result = [op |-> "none", err |-> "none"]
    /\ ckpt = [m \in Models |-> EmptyStore]
    /\ last_save = NoSave
    /\ loads = 0
    /\ es_patience = -1
    /\ es_start = 0
    /\ es_best = Inf
    /\ es_log = <<>>
    /\ es_terminated = FALSE
    /\ exp_current = NoExperiment
    /\ exp_shadowed = {}
    /\ past_experiments = {}
    /\ exp_last = [op |-> "none", e |-> NoExperiment]
    /\ hy_pc = "idle"
    /\ hy_count = -1
    /\ hy_links = {}
    /\ hy_created = 0

\* --------------------------------------------------------- specifications
\* One Trainer and its model: construction, hooks, the registry, training.
TheTrainer == {"t1"}
TheModel == {"m1"}

Next ==
    \/ \E t \in TheTrainer, m \in TheModel, val \in BOOLEAN :
           TrainerInit(t, m, val)
    \/ \E t \in TheTrainer : TerminateTraining(t)
    \/ \E t \in TheTrainer, h \in HookKinds : AddPreEpochHook(t, h)
    \/ \E t \in TheTrainer, h \in HookKinds : AddPostEpochHook(t, h)
    \/ \E t \in TheTrainer : Validate(t)
    \/ \E h \in HookKinds : RegistryRegister(h)
    \/ \E t \in TheTrainer : RegistryExecute(t)
    \/ \E t \in TheTrainer, n \in 0..MaxEpoch : Train(t, n)
    \/ TrainNext
    \/ TrainPre
    \/ \E c \in Criteria, bw \in BackwardOutcomes : TrainBatch(c, bw)
    \/ TrainPost

Spec == Init /\ [][Next]_vars

\* Several Trainers and models: construction, termination and unbinding.
NextBinding ==
    \/ \E t \in Trainers, m \in Models, val \in BOOLEAN :
           TrainerInit(t, m, val)
    \/ \E t \in Trainers, m \in Models : Unbind(t, m)
    \/ \E t \in Trainers : TerminateTraining(t)

SpecBinding == Init /\ [][NextBinding]_vars

\* recursive_apply on nested structures built up by its caller.
NextApply ==
    \/ \E l \in Leaves : NewLeaf(l)
    \/ \E items \in ItemLists :
           \E keys \in KeyLists(Len(items)) : NewMapping(keys, items)
    \/ \E items \in ItemLists : NewSequence(items)
    \/ \E cls \in TupleClasses, items \in ItemLists : NewTuple(cls, items)
    \/ \E func \in Funcs : RecursiveApply(func)

SpecApply == Init /\ [][NextApply]_vars

\* Aggregates built per sub-batch, updated and merged in any order.
NextAggregate ==
    \/ \E key \in Names, value \in Tensors : AggregateInit(key, value)
    \/ \E i \in 1..MaxParts, key \in Names, value \in Tensors :
           AggregateIAddMapping(i, key, value)
    \/ \E i, j \in 1..MaxParts : AggregateAdd(i, j)
    \/ \E i, j \in 1..MaxParts : AggregateIAdd(i, j)

SpecAggregate == Init /\ [][NextAggregate]_vars

\* Evaluations of one model, all constructed with the caller's metric.
NextEval ==
    \/ \E e \in Evals, cap \in Caps : EvaluationInit(e, cap)
    \/ \E i \in 1..Len(Loader) : MetricUpdate(Loader[i])
    \/ \E e \in Evals, store_outputs \in BOOLEAN :
           DiagnosticCall(e, store_outputs)
    \/ \E outputs \in Outputs : EvalBatch(outputs)

SpecEval == Init /\ [][NextEval]_vars

\* One DictList and the operations that give it dictionaries.
NextDictList ==
    \/ \E d \in Dicts : DictListAppend(d)
    \/ \E i \in 0..MaxLen, d \in Dicts : DictListInsert(i, d)
    \/ \E i \in 0..MaxLen, d \in Dicts : DictListSetItem(i, d)
    \/ \E d1, d2 \in Dicts : DictListExtend(<<d1, d2>>)
    \/ DictListClear
    \/ \E i \in 0..MaxLen : DictListPop(i)
    \/ \E i, j \in 0..MaxLen, d1, d2 \in Dicts :
           DictListSetSlice(i, j, <<d1, d2>>)

SpecDictList == Init /\ [][NextDictList]_vars

\* One Trainer without hooks: training, saving and loading checkpoints.
NextCheckpoint ==
    \/ \E t \in TheTrainer, m \in TheModel : TrainerInit(t, m, FALSE)
    \/ \E t \in TheTrainer, n \in 1..MaxEpoch : Train(t, n)
    \/ TrainNext
    \/ TrainPre
    \/ \E bw \in BackwardOutcomes : TrainBatch("finite", bw)
    \/ TrainPost
    \/ \E t \in TheTrainer, rp \in BOOLEAN : SaveCheckpoint(t, rp)
    \/ \E t \in TheTrainer, e \in -1..MaxEpoch : LoadCheckpoint(t, e)

SpecCheckpoint == Init /\ [][NextCheckpoint]_vars

\* An early-stopping callback and the epochs of the training it watches.
NextEarlyStopping ==
    \/ \E patience \in 0..MaxPatience, start \in 0..MaxPatience :
           EarlyStoppingCallback(patience, start)
    \/ \E v \in Metrics : EarlyStoppingEpoch(v)

SpecEarlyStopping == Init /\ [][NextEarlyStopping]_vars

\* The Experiment objects and the class-level current experiment.
NextExperiment ==
    \/ \E e \in Experiments : ExperimentInit(e)
    \/ \E e \in Experiments : ExperimentActivate(e)
    \/ \E e \in Experiments : ExperimentStop(e)
    \/ ExperimentCurrent

SpecExperiment == Init /\ [][NextExperiment]_vars

\* One experiment directory and a call of link_to_hydra.
NextHydra ==
    \/ \E name \in LinkNames : ExistingLink(name)
    \/ LinkToHydra
    \/ LinkToHydraStep

SpecHydra == Init /\ [][NextHydra]_vars

\* ------------------------------------------------------------ properties
LogIdx == 1..Len(log)

\* The events of kind ev that belong to loop iteration k, in log order.
Events(ev, k) == SelectSeq(log, LAMBDA e : e.ev = ev /\ e.it = k)

\* All events of kind ev, in log order.
AllEvents(ev) == SelectSeq(log, LAMBDA e : e.ev = ev)

\* A train() call has returned normally and its record is still in place.
TrainReturned == pc = "idle" /\ call.t # NoTrainer /\ result = "returned"

NoConvergenceError == \A p \in LogIdx : log[p].ev # "conv_error"

NoHookTerminated ==
    \A p \in LogIdx : ~(log[p].ev \in {"pre", "post"} /\ log[p].h = "terminate")

\* C1: single-writer binding. Constructing a Trainer for a model that is
\* bound raises AlreadyBoundError, creates no Trainer and leaves the binding
\* as it was; constructing one for a model that is not bound (never bound,
\* or unbound again) succeeds and records the binding; so Trainers of
\* different models are bound side by side.
C1_SingleWriterBinding ==
    [][\A t \in Trainers, m \in Models, val \in BOOLEAN :
          TrainerInit(t, m, val) =>
              IF bound[m] # NoTrainer
              THEN /\ result' = "AlreadyBoundError"
                   /\ bound' = bound
                   /\ model_of'[t] = NoModel
              ELSE /\ result' = "ok"
                   /\ bound' = [bound EXCEPT ![m] = t]
                   /\ model_of'[t] = m]_vars

\* C1 witness: a second construction for a bound model has just failed,
\* while the first Trainer is still the one bound.
C1_Witness ==
    /\ result = "AlreadyBoundError"
    /\ \E t \in Trainers, u \in Trainers :
          /\ t # u
          /\ model_of[t] # NoModel
          /\ bound[model_of[t]] = t
          /\ model_of[u] = NoModel

\* (also reached: two Trainers bound to different models at once)
C1_DifferentModelsBound ==
    bound["m1"] = "t1" /\ bound["m2"] = "t2"

\* (also reached: after unbind, the model is bound to the other Trainer)
C1_ReboundAfterUnbind ==
    model_of["t1"] = "m1" /\ model_of["t2"] = "m1" /\ bound["m1"] = "t2"

\* C2: train() on a Trainer whose termination flag was set before the call
\* changes nothing: when it returns, the model's epoch counter, learning
\* rate and parameters are those from before the call, and no hook, no
\* batch and no averaged-metrics event happened. (The warning the claim
\* also asks for is a log message; log_train's is commented out, lines
\* 59-60 of training.py, and the formula leaves it aside.)
C2_TrainAfterTerminateChangesNothing ==
    (TrainReturned /\ call.start_terminated) =>
        LET m == model_of[call.t]
        IN  /\ epoch[m] = call.start_epoch
            /\ lr[m] = call.start_lr
            /\ params[m] = call.start_params
            /\ \A p \in LogIdx :
                  log[p].ev \notin {"pre", "post", "batch", "step", "metrics"}

\* C3: divergence isolation. When train(n) has returned, a batch of loop
\* iteration k < n raised ConvergenceError and no hook called
\* terminate_training(), every batch of every later requested epoch was run.
C3_DivergenceIsolation ==
    (TrainReturned /\ NoHookTerminated) =>
        \A p \in LogIdx :
            (log[p].ev = "conv_error" /\ log[p].it < call.n) =>
                \A k \in (log[p].it + 1)..call.n :
                    Len(Events("batch", k)) = Len(Loader)

\* C4: end-to-end epoch accounting. When train(N) on a Trainer that was not
\* terminated has returned, with no ConvergenceError and no hook calling
\* terminate_training(), the batches run are those of N epochs in loader
\* order, there are exactly N averaged training metrics events, the k-th of
\* them right after the step of the last batch of epoch k, and the model's
\* epoch counter is N higher than before the call.
C4_EpochAccounting ==
    (TrainReturned /\ ~call.start_terminated /\ NoConvergenceError
        /\ NoHookTerminated) =>
        LET m == model_of[call.t]
            L == Len(Loader)
            batches == AllEvents("batch")
            steps == AllEvents("step")
        IN  /\ Len(batches) = call.n * L
            /\ \A j \in 1..Len(batches) :
                  /\ batches[j].it = ((j - 1) \div L) + 1
                  /\ batches[j].i = ((j - 1) % L) + 1
                  /\ batches[j].h = Loader[batches[j].i]
            /\ Len(steps) = call.n * L
            /\ Cardinality({p \in LogIdx : log[p].ev = "metrics"
                                           /\ log[p].h = "train"}) = call.n
            /\ \A k \in 1..call.n :
                  \E p \in LogIdx :
                     /\ log[p] = Ev("metrics", k, call.start_epoch + k,
                                    "train", "")
                     /\ p > 1
                     /\ log[p - 1] = Ev("step", k, L, "", "")
            /\ epoch[m] = call.start_epoch + call.n

\* C4 witness: a train() call of at least two epochs returned that way.
C4_Witness ==
    /\ TrainReturned
    /\ ~call.start_terminated
    /\ NoConvergenceError
    /\ NoHookTerminated
    /\ call.n >= 2

\* C5: once a post-epoch hook has called terminate_training() in loop
\* iteration k, nothing of a later iteration runs: no batch, no optimizer
\* step, no learning-rate update, no mode change, no pre- or post-epoch hook
\* and no metrics event.
C5_StopAfterPostEpochTermination ==
    \A p \in LogIdx :
        (log[p].ev = "post" /\ log[p].h = "terminate") =>
            \A q \in LogIdx :
                log[q].it > log[p].it => log[q].ev \in {"epoch", "end"}

\* C5 witness: train() returned after a post-epoch hook terminated it in an
\* iteration before the last requested one.
C5_Witness ==
    /\ TrainReturned
    /\ \E p \in LogIdx :
          /\ log[p].ev = "post"
          /\ log[p].h = "terminate"
          /\ log[p].it < call.n

\* C6: after terminate_training() on a Trainer bound to model m, m is no
\* longer bound to that Trainer.
C6_TerminateReleasesBinding ==
    \A t \in Trainers :
        (model_of[t] # NoModel /\ early_termination[t]) =>
            bound[model_of[t]] # t

\* C7: the termination flag, once set, stays set through every step, and
\* terminate_training() on a Trainer whose flag is set changes nothing of
\* the Trainers, the models and the bindings.
C7_TerminateIdempotentPermanent ==
    [][\A t \in Trainers :
          /\ early_termination[t] => early_termination'[t]
          /\ (early_termination[t] /\ TerminateTraining(t)) =>
                UNCHANGED <<bound, trainer_vars, model_vars>>]_vars

\* C7 witness: terminate_training() has just been called on a Trainer whose
\* flag was set already.
C7_Witness ==
    result = "flag_was_set" /\ \E t \in Trainers : early_termination[t]

\* The invocations a hook list's execution leaves in the log, when it has
\* started (or, with `done`, is known to have returned) and no callable
\* raised: every registered callable once, in registration order, with the
\* instance as argument.
RanInOrder(stage, k, hooks, t, done) ==
    LET P == Events(stage, k)
    IN  ((P # <<>> \/ done) /\ \A i \in 1..Len(P) : P[i].h # "raise") =>
            P = [i \in 1..Len(hooks) |-> Ev(stage, k, i, hooks[i], t)]

\* exec_pre_epoch_hooks of iteration k has returned: _run_epoch has begun.
PreHooksDone(k) == \E p \in LogIdx : log[p] = Ev("mode", k, 0, "eval", "")

\* exec_post_epoch_hooks of iteration k has returned: the loop went on.
PostHooksDone(k) ==
    \/ k = it /\ pc = "next"
    \/ \E p \in LogIdx : log[p].it > k

\* C8: hook execution order, for HookRegistry.execute and for the
\* Trainer's pre-epoch and post-epoch lists in every loop iteration: an
\* execution in which no callable raises invokes every registered callable
\* exactly once, in registration order, with the orchestrator as argument.
C8_HookOrder ==
    /\ (result = "executed") =>
           \E t \in Trainers : RanInOrder("hook", 0, reg_hooks, t, TRUE)
    /\ (call.t # NoTrainer) =>
           \A k \in 1..it :
              /\ RanInOrder("pre", k, pre_epoch_hooks[call.t], call.t,
                            PreHooksDone(k))
              /\ RanInOrder("post", k, post_epoch_hooks[call.t], call.t,
                            PostHooksDone(k))

\* C8 witness: two different pre-epoch hooks were both invoked in one
\* iteration.
C8_Witness ==
    /\ call.t # NoTrainer
    /\ Len(pre_epoch_hooks[call.t]) = 2
    /\ pre_epoch_hooks[call.t][1] # pre_epoch_hooks[call.t][2]
    /\ Len(Events("pre", 1)) = 2

\* C9: a raising hook ends what it is part of. Its invocation is the last
\* event: no later hook, no batch, no later epoch; and the call that ran it
\* (train() or HookRegistry.execute) has ended with the hook's exception.
C9_HookExceptionPropagates ==
    \A p \in LogIdx :
        (log[p].ev \in {"pre", "post", "hook"} /\ log[p].h = "raise") =>
            /\ p = Len(log)
            /\ pc = "idle"
            /\ result = "HookError"

\* C9 witness: a pre-epoch hook raised in the first of several requested
\* epochs, with another hook registered after it.
C9_Witness ==
    /\ result = "HookError"
    /\ call.t # NoTrainer
    /\ call.n >= 2
    /\ Len(pre_epoch_hooks[call.t]) = 2
    /\ pre_epoch_hooks[call.t][1] = "raise"

\* C10: divergence detection. The optimizer is never stepped on a batch
\* whose criterion is NaN or infinite.
C10_NonFiniteNeverStepped == ~silent

\* The structure o is built only from leaves of the types leaf_types,
\* tuples of the classes classes, lists, and mappings with keys in keys.
RECURSIVE BuiltFrom(_, _, _, _)
BuiltFrom(o, leaf_types, classes, keys) ==
    /\ o.kind = "leaf" => o.cls \in leaf_types
    /\ o.kind = "tuple" => o.cls \in classes
    /\ o.kind = "mapping" => \A i \in 1..Len(o.keys) : o.keys[i] \in keys
    /\ \A i \in 1..Len(o.items) :
          BuiltFrom(o.items[i], leaf_types, classes, keys)

AllKeys == StrKeys \cup {KeyInt, KeyTuple}

\* Some value inside o, at any depth, is a leaf that is not a tensor.
RECURSIVE HasUnsupported(_)
HasUnsupported(o) ==
    IF o.kind = "leaf" THEN o.cls # "Tensor"
    ELSE \E i \in 1..Len(o.items) : HasUnsupported(o.items[i])

\* C16: transform identity law. For a structure built only from mappings,
\* mutable sequences, tuples, named tuples and tensor leaves,
\* recursive_apply(structure, Tensor, identity) returns a structure equal
\* to the input, with the same container types at every level.
C16_IdentityLaw ==
    (applied.func = "identity"
        /\ BuiltFrom(obj, {"Tensor"}, {"tuple", "NamedTuple"}, AllKeys)) =>
        /\ applied.err = "none"
        /\ applied.val = obj

\* (the identity law restricted to mappings whose keys are all str)
C16_IdentityLawStrKeys ==
    (applied.func = "identity"
        /\ BuiltFrom(obj, {"Tensor"}, {"tuple", "NamedTuple"}, StrKeys)) =>
        /\ applied.err = "none"
        /\ applied.val = obj

\* C17: mappings with any hashable key. For a mapping whose items are all
\* transformed without error, whatever its keys (str, int or tuple),
\* recursive_apply returns, without raising, a mapping with the same keys
\* whose values are the transformed items.
C17_AnyHashableKey ==
    (applied.func # "none" /\ obj.kind = "mapping") =>
        LET R == [i \in 1..Len(obj.items) |->
                     recursive_apply(obj.items[i], "Tensor", applied.func)]
        IN  first_error(R) = "none" =>
                /\ applied.err = "none"
                /\ applied.val = Mapping(obj.keys, returned_values(R))

\* (the same for mappings whose keys are all str)
C17_StrKeys ==
    (applied.func # "none" /\ obj.kind = "mapping"
        /\ \A i \in 1..Len(obj.keys) : obj.keys[i] \in StrKeys) =>
        LET R == [i \in 1..Len(obj.items) |->
                     recursive_apply(obj.items[i], "Tensor", applied.func)]
        IN  first_error(R) = "none" =>
                /\ applied.err = "none"
                /\ applied.val = Mapping(obj.keys, returned_values(R))

\* The unsupported-type half of C18: in a structure of supported containers
\* (str keys, tuples and named tuples), a leaf that is not a tensor, at any
\* depth, makes recursive_apply raise FuncNotApplicableError.
C18_UnsupportedRaises ==
    (applied.func # "none" /\ HasUnsupported(obj)
        /\ BuiltFrom(obj, {"Tensor", "str"}, {"tuple", "NamedTuple"},
                     StrKeys)) =>
        applied = [func |-> applied.func, err |-> "FuncNotApplicableError",
                   val |-> NoValue]

\* The tuple at hand has supported items and calling its class on them does
\* not give the tuple back.
NotReconstructible ==
    /\ obj.kind = "tuple"
    /\ obj.cls # "tuple"
    /\ \A i \in 1..Len(obj.items) :
          BuiltFrom(obj.items[i], {"Tensor"}, {"tuple", "NamedTuple"}, StrKeys)
    /\ construct(obj.cls, obj.items) # Returned(obj)

\* C18: nested transform errors. A value at any depth that is neither a
\* tensor nor a supported container makes recursive_apply raise
\* FuncNotApplicableError, and a tuple-like value that its class does not
\* rebuild from its elements makes it raise NamedTupleOnlyError; in both
\* cases no structure is returned.
C18_TransformErrors ==
    /\ C18_UnsupportedRaises
    /\ (applied.func # "none" /\ NotReconstructible) =>
           applied = [func |-> applied.func, err |-> "NamedTupleOnlyError",
                      val |-> NoValue]

RECURSIVE Flatten(_)
Flatten(q) == IF q = <<>> THEN <<>> ELSE Head(q) \o Flatten(Tail(q))

\* One aggregate over the whole sequence of values of each metric in keys:
\* TorchAggregate(**{metric: all its values in one batch}).
RECURSIVE WholeAggregate(_)
WholeAggregate(keys) ==
    IF keys = {} THEN EmptyAggregate
    ELSE LET k == CHOOSE x \in keys : TRUE
             data == Flatten(parts[k])
         IN  setitem(WholeAggregate(keys \ {k}), k,
                     Tensor(<<Len(data)>>, data)).val

\* All the aggregates of q merged with +, from left to right.
RECURSIVE MergeAll(_)
MergeAll(q) ==
    IF q = <<>> THEN EmptyAggregate
    ELSE add(MergeAll(SubSeq(q, 1, Len(q) - 1)), q[Len(q)])

Get(d, k) == IF k \in DOMAIN d THEN d[k] ELSE 0

\* C15: an update of an aggregate raises NotBatchedError exactly when the
\* value has no batch dimension (a 0-d tensor); a value with a batch
\* dimension is accepted and adds its number of elements to the count and
\* its total to the sum of its metric.
C15_NotBatchedExactly ==
    (agg_last.key # <<>>) =>
        LET k == format_key(agg_last.key)
            value == agg_last.value
        IN  /\ (agg_last.err = "NotBatchedError") <=> (value.shape = <<>>)
            /\ (value.shape # <<>>) =>
                  /\ Get(agg_last.after.counts, k)
                         = Get(agg_last.before.counts, k) + numel(value)
                  /\ Get(agg_last.after.aggregate, k)
                         = Get(agg_last.before.aggregate, k)
                           + SumSeq(value.data)

\* (what does hold: an accepted value adds its count and its total)
C15_AcceptedValueAdds ==
    (agg_last.key # <<>> /\ agg_last.err = "none") =>
        LET k == format_key(agg_last.key)
            value == agg_last.value
        IN  /\ Get(agg_last.after.counts, k)
                   = Get(agg_last.before.counts, k) + numel(value)
            /\ Get(agg_last.after.aggregate, k)
                   = Get(agg_last.before.aggregate, k) + SumSeq(value.data)

EvLogIdx == 1..Len(ev_log)

\* C11: output buffer bound. The stored outputs of an evaluation are never
\* more than its configured max_stored_output.
C11_OutputBufferBound ==
    \A e \in Evals : Len(outputs_list[e]) <= max_stored_output[e]

\* C12: when storing a batch's outputs raises FuncNotApplicableError or
\* NamedTupleOnlyError, the pass only issues a warning: the outputs of that
\* batch are not stored and the pass goes on, with the update of the next
\* batch or, after the last batch, with the averaged-metrics event that
\* ends it.
C12_StoreFailureIsWarning ==
    \A p \in EvLogIdx :
        (ev_log[p].ev = "store_raised"
            /\ ev_log[p].h \in {"FuncNotApplicableError",
                                "NamedTupleOnlyError"}) =>
            LET b == ev_log[p].i
                e == ev_log[p].arg
            IN  /\ ev_log[p - 1] = Ev("update", 0, b, Loader[b], e)
                /\ p < Len(ev_log)
                /\ ev_log[p + 1] = Ev("warning", 0, b, ev_log[p].h, e)
                /\ \A q \in EvLogIdx :
                      ~(ev_log[q].ev = "stored" /\ ev_log[q].i = b)
                /\ IF b = Len(Loader)
                   THEN /\ p + 2 = Len(ev_log)
                        /\ ev_log[p + 2].ev = "metrics"
                        /\ ev_call.state = "returned"
                   ELSE \/ /\ p + 1 = Len(ev_log)
                           /\ ev_call.state = "running"
                           /\ ev_call.batch_idx = b + 1
                        \/ /\ p + 1 < Len(ev_log)
                           /\ ev_log[p + 2]
                                  = Ev("update", 0, b + 1, Loader[b + 1], e)

\* C12 witness: a pass returned after the storage of its first batch's
\* outputs failed; the second batch's outputs were stored.
C12_Witness ==
    /\ ev_call.state = "returned"
    /\ \E p \in EvLogIdx : ev_log[p].ev = "warning" /\ ev_log[p].i = 1
    /\ Len(outputs_list[ev_call.e]) = 1

\* C13: an evaluation call that has returned set the model to evaluation
\* mode and reset the objective first, then updated the objective with
\* every batch of the loader once and in order, and emitted one
\* averaged-metrics event, as its last event; the model's parameters and
\* epoch counter are those from before the call.
C13_EvaluationPass ==
    (ev_call.state = "returned") =>
        LET e == ev_call.e
            updates == SelectSeq(ev_log, LAMBDA x : x.ev = "update")
            metrics == SelectSeq(ev_log, LAMBDA x : x.ev = "metrics")
        IN  /\ SubSeq(ev_log, 1, 3)
                   = <<Ev("mode", 0, 0, "eval", e), Ev("clear", 0, 0, "", e),
                       Ev("reset", 0, 0, "", e)>>
            /\ mode["m1"] = "eval"
            /\ updates = [b \in 1..Len(Loader) |->
                             Ev("update", 0, b, Loader[b], e)]
            /\ acc[objective[e]] = Loader
            /\ Len(metrics) = 1
            /\ ev_log[Len(ev_log)].ev = "metrics"
            /\ params["m1"] = ev_call.start_params
            /\ epoch["m1"] = ev_call.start_epoch

\* C13 witness: a pass that stored the outputs of every batch has returned
\* after a pass of the other evaluation.
C13_Witness ==
    /\ ev_call.state = "returned"
    /\ ev_call.store_outputs
    /\ Len(outputs_list[ev_call.e]) = Len(Loader)
    /\ \E e \in Evals : /\ e # ev_call.e
                         /\ objective[e] # NoObject
                         /\ acc[objective[e]] = Loader

\* C19: independent objectives. An evaluation's objective is an object of
\* its own, neither the metric object it was given nor the objective of
\* another evaluation, and no construction and no pass of an evaluation
\* changes what the given metric object has accumulated.
C19_IndependentObjectives ==
    [][/\ \A e \in Evals : objective'[e] # Metric
       /\ \A e1, e2 \in Evals :
             (e1 # e2 /\ objective'[e1] # NoObject) =>
                 objective'[e1] # objective'[e2]
       /\ (acc'[Metric] # acc[Metric]) =>
             \E i \in 1..Len(Loader) : MetricUpdate(Loader[i])]_vars

\* C19 witness: two evaluations were constructed with a metric object that
\* had accumulated a batch, and both have run a pass.
C19_Witness ==
    /\ acc[Metric] # <<>>
    /\ \A e \in Evals : objective[e] # NoObject /\ acc[objective[e]] = Loader

\* The dictionary d has another key set than the list.
OtherKeys(d) == Range(d.keys) # Range(dl_keys)

\* The operation raised the key-mismatch error and left the list's keys.
KeyMismatchRaised ==
    /\ dl_result'.err = "KeysAlreadySetError"
    /\ dl_keys' = dl_keys

\* The operations given a dictionary with another key set raise and leave
\* the keys, and the keys do not change.
FixedKeySetStep ==
    /\ dl_keys' = dl_keys
    /\ \A d \in Dicts :
          OtherKeys(d) =>
             /\ DictListAppend(d) => KeyMismatchRaised /\ dl_list' = dl_list
             /\ \A i \in 0..MaxLen :
                    DictListInsert(i, d) =>
                        KeyMismatchRaised /\ dl_list' = dl_list
             /\ \A i \in 0..MaxLen :
                    DictListSetItem(i, d) =>
                        KeyMismatchRaised /\ dl_list' = dl_list
    /\ \A d1, d2 \in Dicts :
          ((OtherKeys(d1) \/ OtherKeys(d2)) /\ DictListExtend(<<d1, d2>>))
              => KeyMismatchRaised

\* C20: DictList has a fixed key set. Once the list holds a first
\* dictionary, its keys never change, and every append, insert, item
\* assignment and extend given a dictionary with another key set raises
\* KeysAlreadySetError.
C20_FixedKeySet == [][(dl_list # <<>>) => FixedKeySetStep]_vars

\* C20 for a list whose first dictionary had at least one key (so that
\* _keys is not empty).
C20_FixedKeySetNonEmpty == [][(dl_keys # <<>>) => FixedKeySetStep]_vars

\* C22: per-epoch step order. In every loop iteration of train() the
\* pre-epoch hooks run before the model's epoch counter is incremented and
\* before the learning rate is updated: no increment and no update of an
\* iteration precedes a pre-epoch hook invocation of that iteration.
C22_PreHooksBeforeIncrement ==
    \A p \in LogIdx :
        log[p].ev = "pre" =>
            \A q \in 1..(p - 1) :
                ~(log[q].it = log[p].it /\ log[q].ev \in {"epoch", "lr"})

\* C23: during a training epoch the module is in training mode: at every
\* batch of Trainer._run_epoch its mode is "train".
C23_TrainingModeAtBatches ==
    (pc = "batch") => mode[model_of[call.t]] = "train"

\* The loop iterations of the train() call whose batch loop was entered.
EpochsEntered == {k \in 1..it : PreHooksDone(k)}

\* C24: epoch counter accuracy. When train(n) has returned, the model's
\* epoch counter has increased by exactly the number of epochs whose batch
\* loop was entered during the call.
C24_EpochCounterAccuracy ==
    TrainReturned =>
        epoch[model_of[call.t]] = call.start_epoch + Cardinality(EpochsEntered)

\* (holds: the counter has increased by the number of times log_train's
\* loop body was entered, by next() or by throw())
C24_CounterCountsGeneratorSteps ==
    TrainReturned =>
        epoch[model_of[call.t]] = call.start_epoch + (call.n - gen_left)

\* C25: train() handles a ConvergenceError raised in any epoch, the last
\* requested one included: neither ConvergenceError nor StopIteration ends
\* the call, and once the call has returned the post-epoch hooks of the
\* diverged iteration have run.
C25_ConvergenceErrorHandled ==
    /\ result \notin {"ConvergenceError", "StopIteration"}
    /\ \A p \in LogIdx :
          (log[p].ev = "conv_error" /\ pc = "idle") =>
              /\ result \in {"returned", "HookError"}
              /\ Len(post_epoch_hooks[call.t]) > 0 =>
                     Events("post", log[p].it) # <<>>

\* (holds: a ConvergenceError in an iteration before the last requested one
\* is handled: the call goes on to the post-epoch hooks of that iteration)
C25_HandledBeforeLastEpoch ==
    \A p \in LogIdx :
        (log[p].ev = "conv_error" /\ log[p].it < call.n) =>
            /\ result # "StopIteration"
            /\ pc = "idle" =>
                  /\ result \in {"returned", "HookError"}
                  /\ Len(post_epoch_hooks[call.t]) > 0 =>
                         Events("post", log[p].it) # <<>>

\* The epoch of the latest save() is the highest one in the model's store.
LastSaveIsHighest(m) ==
    /\ SavedEpochs(ckpt[m]) # {}
    /\ last_save.epoch = Max(SavedEpochs(ckpt[m]))

\* C21: checkpoint round trip. After save() at epoch E, whatever training
\* (and loading) happened since, load(E), or load() with the default -1
\* when E is the highest saved epoch, restores the parameters to their
\* values at save time and the epoch counter to E.
C21_CheckpointRoundTrip ==
    [][\A t \in TheTrainer, e \in -1..MaxEpoch :
          (/\ LoadCheckpoint(t, e)
           /\ last_save # NoSave
           /\ \/ e = last_save.epoch
              \/ e = -1 /\ LastSaveIsHighest(model_of[t])) =>
              /\ result' = "loaded"
              /\ params'[model_of[t]] = last_save.params
              /\ epoch'[model_of[t]] = last_save.epoch]_vars

\* C21 witness: a checkpoint saved at epoch 1 has just been loaded after
\* training had gone on to a later epoch and other parameters; a second
\* checkpoint of another epoch is in the store.
C21_Witness ==
    /\ result = "loaded"
    /\ last_save.epoch = 1
    /\ epoch["m1"] = 1
    /\ params["m1"] = last_save.params
    /\ loads = 2
    /\ Cardinality(SavedEpochs(ckpt["m1"])) = 2

\* The element read at position i has exactly the list's keys.
RowHasKeys(i) == DOMAIN item_to_dict(dl_keys, dl_list[i]) = Range(dl_keys)

\* C26: DictList key invariant. After any operations that did not raise,
\* every element read from the list is a dictionary whose key set is
\* exactly keys(), also when an empty dictionary was added.
C26_KeyInvariant == \A i \in 1..Len(dl_list) : RowHasKeys(i)

\* (holds: the invariant for a list that holds no row of an empty
\* dictionary)
C26_KeyInvariantNoEmptyRow ==
    (\A i \in 1..Len(dl_list) : dl_list[i] # <<>>) => C26_KeyInvariant

\* C27: a rejected DictList operation has no effect. When an operation
\* raises KeysAlreadySetError, the rows and the keys are those from before
\* the call.
C27_RejectedHasNoEffect ==
    [][(dl_result'.err = "KeysAlreadySetError") =>
          /\ dl_list' = dl_list
          /\ dl_keys' = dl_keys]_vars

\* (holds: append, insert and item assignment of one dictionary, when
\* rejected, leave the rows and the keys)
C27_RejectedSingleHasNoEffect ==
    [][(/\ dl_result'.err = "KeysAlreadySetError"
        /\ dl_result'.op \in {"append", "insert", "setitem"}) =>
          /\ dl_list' = dl_list
          /\ dl_keys' = dl_keys]_vars

\* In epoch i the monitored metric reached a new best value: lower than in
\* every epoch before (the first epoch is not counted as an improvement).
NewBest(i) == i > 1 /\ \A j \in 1..(i - 1) : es_log[i] < es_log[j]

\* C28: early-stopping patience. The hook calls terminate_training() only
\* at an epoch where the monitored metric has not reached a new best value
\* during the last `patience` epochs.
C28_EarlyStoppingPatience ==
    es_terminated =>
        \A i \in 1..Len(es_log) :
            i > Len(es_log) - es_patience => ~NewBest(i)

\* (holds: the hook terminates only at an epoch that did not itself reach a
\* new best value)
C28_TerminatesWithoutNewBest ==
    es_terminated => ~NewBest(Len(es_log))

\* What Experiment.current() returns in the state after the step.
CurrentAfter == IF exp_current' # NoExperiment THEN exp_current' ELSE "unnamed"

\* C29: current-experiment registry. Activating an experiment makes it the
\* one Experiment.current() returns, and after exp.stop()
\* Experiment.current() does not return exp.
C29_CurrentExperiment ==
    [][\A e \in Experiments :
          /\ ExperimentActivate(e) => CurrentAfter = e
          /\ ExperimentStop(e) => CurrentAfter # e]_vars

\* (holds: activating an experiment, by construction or by activate(), makes
\* it the current one, whichever experiment was current before)
C29_ActivateMakesCurrent ==
    [][\A e \in Experiments :
          (ExperimentActivate(e) \/ ExperimentInit(e)) =>
              CurrentAfter = e]_vars

\* C30: link_to_hydra creates exactly one symbolic link: a call never
\* creates a second one.
C30_ExactlyOneLink == hy_created <= 1

\* (holds: the call skips the names that exist, and the first link it
\* creates has the first unused name)
C30_SkipsExistingNames ==
    [][(LinkToHydraStep /\ hy_created = 0 /\ hy_created' = 1) =>
          /\ default_name(hy_count).name \notin hy_links
          /\ hy_links' = hy_links \cup {default_name(hy_count).name}]_vars

====
